---- MODULE Spec2Model ----
(***************************************************************************)
(* Model of go-flowdock's MessagesService (src/flowdock/messages.go):      *)
(* the Stream subscription (one background goroutine feeding an            *)
(* unbuffered channel from an eventsource) and Message.Content().          *)
(***************************************************************************)
EXTENDS Integers, Sequences, FiniteSets, TLC

VARIABLES
    ret,          \* what Stream returned: [ch, es, err], or NotCalled
    req,          \* the request handed to eventsource.New, <<>> when none
    chMade,       \* make(chan Message) was executed
    chClosed,     \* the channel has been closed
    esMade,       \* eventsource.New was executed
    esCloseCalls, \* number of es.Close() invocations so far
    cancelled,    \* the caller has closed the returned handle
    pc,           \* position of the goroutine: none, read, decode, send, done
    event,        \* the frame data the last successful Read returned
    m,            \* the Message decoded from event, pending on the channel
    arrived,      \* data of the frames Read returned, in arrival order
    nReads,       \* number of es.Read() invocations
    received,     \* Messages the consumer took from the channel, in order
    consumer,     \* "receiving" or "stopped"
    log,          \* what the goroutine logged on exit: none, read, json
    readFailed,   \* es.Read() has returned an error
    cm,           \* the Message Content() is called on
    cres,         \* outcome of the Content() call
    rtPc,         \* round trip: idle, start, decoded, encoded
    rtDoc,        \* round trip: the JSON payload
    rtMsg,        \* round trip: result of decoding rtDoc, [err, msg]
    rtOut,        \* round trip: the JSON text of encoding rtMsg.msg
    restCall,     \* REST: the operation called, its options and what the
                  \* collaborators answer; [op |-> "none"] before the call
    restRet,      \* REST: what the operation returned
    httpLog,      \* REST: the requests handed to client.Do, in order
    subs,         \* several subscriptions: per Stream call, its outcome, the
                  \* channel and source it created, and its goroutine
    chans,        \* several subscriptions: the channels, with what has been
                  \* received from each
    sources       \* several subscriptions: the event sources, with the
                  \* frames read from each and the Close calls made on it

streamVars == <<ret, req, chMade, chClosed, esMade, esCloseCalls, cancelled,
                pc, event, m, arrived, nReads, received, consumer, log,
                readFailed>>
contentVars == <<cm, cres>>
rtVars == <<rtPc, rtDoc, rtMsg, rtOut>>
\* What the stream model leaves alone.
restVars == <<restCall, restRet, httpLog>>
multiVars == <<subs, chans, sources>>
auxVars == <<contentVars, rtVars, restVars, multiVars>>
vars == <<streamVars, auxVars>>

\* Largest number of keys present in a payload of the round trip.
MaxPresent == 2

\* Subscriptions open at once, and frames read from each one's source.
NSubs == 2
MaxSubFrames == 2
SubIds == 1..NSubs

\* Largest number of frames the event source yields to one subscription.
MaxFrames == 3

(***************************************************************************)
(* JSON texts.  A text is either not JSON at all (JBad) or one JSON value. *)
(***************************************************************************)
JBad == [t |-> "bad"]
JNull == [t |-> "null"]
JNum(n) == [t |-> "num", n |-> n]
JStr(s) == [t |-> "str", s |-> s]
JArr(a) == [t |-> "arr", a |-> a]
JObj(o) == [t |-> "obj", o |-> o]
EmptyObj == JObj([k \in {} |-> JNull])

(***************************************************************************)
(* The Message struct: eleven pointer fields, nil or pointing to a value.  *)
(***************************************************************************)
Nil == [t |-> "nil"]
Keys == {"id", "flow", "sent", "user", "event", "content", "message", "tags",
         "uuid", "external_user_name", "app"}

\* The Go type behind each JSON key of Message.
FieldKind(k) ==
    CASE k \in {"id", "message"} -> "int"
      [] k = "sent" -> "time"
      [] k = "content" -> "raw"
      [] k = "tags" -> "strs"
      [] OTHER -> "string"

\* new(Message): every pointer nil.
ZeroMessage == [k \in Keys |-> Nil]

\* Whether JSON value j can be stored in a field of the given kind.  null is
\* accepted by every pointer field.
FieldAccepts(kind, j) ==
    CASE j.t = "null" -> TRUE
      [] kind = "int" -> j.t = "num"
      [] kind = "time" -> j.t = "num"
      [] kind = "string" -> j.t = "str"
      [] kind = "strs" -> j.t = "arr"
      [] kind = "raw" -> TRUE
      [] OTHER -> FALSE

\* Time from the wire: epoch milliseconds become seconds and nanoseconds.
TimeFromMillis(ms) ==
    [t |-> "time", sec |-> ms \div 1000, nsec |-> (ms % 1000) * 1000000]

\* Time to the wire: epoch milliseconds.
MillisFromTime(v) == v.sec * 1000 + v.nsec \div 1000000

\* The value a pointer field holds after decoding j into it: null leaves the
\* pointer nil, anything else allocates the field's Go value.
FieldValue(kind, j) ==
    CASE j.t = "null" -> Nil
      [] kind = "int" -> [t |-> "int", n |-> j.n]
      [] kind = "time" -> TimeFromMillis(j.n)
      [] kind = "string" -> [t |-> "string", s |-> j.s]
      [] kind = "strs" -> [t |-> "strs", a |-> j.a]
      [] OTHER -> [t |-> "raw", j |-> j]

\* json.Unmarshal(data, new(Message)): a syntax error for a text that is not
\* JSON, a type error for a non-object value or a key whose value does not fit
\* its field; unknown keys are ignored, absent keys leave the pointer nil.
UnmarshalMessage(data) ==
    CASE data.t = "bad" -> [err |-> TRUE, msg |-> ZeroMessage]
      [] data.t = "null" -> [err |-> FALSE, msg |-> ZeroMessage]
      [] data.t # "obj" -> [err |-> TRUE, msg |-> ZeroMessage]
      [] OTHER ->
            LET present == DOMAIN data.o \cap Keys
                fits(k) == FieldAccepts(FieldKind(k), data.o[k])
            IN  [err |-> \E k \in present : ~fits(k),
                 msg |-> [k \in Keys |->
                            IF k \in present /\ fits(k)
                            THEN FieldValue(FieldKind(k), data.o[k])
                            ELSE Nil]]

\* Mutant: omitempty on value fields instead of pointers, zero values dropped.
OmitEmpty_ZeroValue(v) ==
    CASE v = Nil -> TRUE
      [] v.t = "int" -> v.n = 0
      [] v.t = "string" -> v.s = ""
      [] v.t = "strs" -> v.a = <<>>
      [] OTHER -> FALSE

\* `json:"...,omitempty"` on a pointer field: left out when the pointer is nil.
OmitEmpty(v) == v = Nil

\* The JSON value a non-nil field is encoded as.
EncodeField(v) ==
    CASE v.t = "int" -> JNum(v.n)
      [] v.t = "time" -> JNum(MillisFromTime(v))
      [] v.t = "string" -> JStr(v.s)
      [] v.t = "strs" -> JArr(v.a)
      [] OTHER -> v.j

\* json.Marshal(msg): one key per field that omitempty does not leave out.
MarshalMessage(msg) ==
    JObj([k \in {x \in Keys : ~OmitEmpty(msg[x])} |-> EncodeField(msg[k])])

\* Payload values tried for a key: a zero value, a non-zero value and null;
\* raw content may be any JSON value.
ValuesOf(k) ==
    CASE FieldKind(k) = "int" -> {JNum(0), JNum(7), JNull}
      [] FieldKind(k) = "time" -> {JNum(0), JNum(1500), JNull}
      [] FieldKind(k) = "string" -> {JStr(""), JStr("x"), JNull}
      [] FieldKind(k) = "strs" -> {JArr(<<>>), JArr(<<"a", "b">>), JNull}
      [] OTHER -> {JStr(""), JNum(0), EmptyObj, JNull}

AllValues == UNION {ValuesOf(k) : k \in Keys}

\* The payloads of the round trip: objects with at most MaxPresent of the
\* eleven keys, each with one of its values.
RtDocs ==
    {JObj(f) : f \in UNION {
        {g \in [S -> AllValues] : \A k \in S : g[k] \in ValuesOf(k)} :
            S \in {T \in SUBSET Keys : Cardinality(T) <= MaxPresent}}}

(***************************************************************************)
(* Message.Content(): the variant is chosen by the event-kind and the raw  *)
(* content is decoded into it.                                             *)
(***************************************************************************)
\* Mutant: a nil event-kind is read as the empty string.
DerefEvent_NilAsEmpty(ev) ==
    [panic |-> FALSE, s |-> IF ev = Nil THEN "" ELSE ev.s]

\* *m.Event: dereferencing a nil pointer panics.
DerefEvent(ev) == [panic |-> ev = Nil, s |-> IF ev = Nil THEN "" ELSE ev.s]

\* Mutant: a nil raw content is read as the JSON text null.
DerefRawContent_NilAsNull(raw) ==
    [panic |-> FALSE, j |-> IF raw = Nil THEN JNull ELSE raw.j]

\* *m.RawContent: dereferencing a nil pointer panics.
DerefRawContent(raw) ==
    [panic |-> raw = Nil, j |-> IF raw = Nil THEN JNull ELSE raw.j]

\* Mutant: the "comment" case allocates the wrong variant.
ContentVariant_CommentAsMessage(ev) ==
    CASE ev = "message" -> "MessageContent"
      [] ev = "comment" -> "MessageContent"
      [] ev = "vcs" -> "VcsContent"
      [] OTHER -> "JsonContent"

\* switch *m.Event { case "message": ... default: new(JsonContent) }
ContentVariant(ev) ==
    CASE ev = "message" -> "MessageContent"
      [] ev = "comment" -> "CommentContent"
      [] ev = "vcs" -> "VcsContent"
      [] OTHER -> "JsonContent"

\* A key of a JSON object, JNull when the object lacks it.
Member(j, k) == IF k \in DOMAIN j.o THEN j.o[k] ELSE JNull

\* The JSON values each content variant decodes from: plain chat text is a
\* string, a comment an object with optional string title and text, vcs
\* metadata an object, the generic fallback any JSON value.
ShapeAccepts(variant, j) ==
    CASE variant = "MessageContent" -> j.t = "str"
      [] variant = "CommentContent" ->
            /\ j.t = "obj"
            /\ Member(j, "title").t \in {"str", "null"}
            /\ Member(j, "text").t \in {"str", "null"}
      [] variant = "VcsContent" -> j.t = "obj"
      [] OTHER -> j.t # "bad"

\* The content value of the variant, filled from JSON value j.
Populate(variant, j) ==
    CASE variant = "MessageContent" -> [variant |-> variant, text |-> j.s]
      [] variant = "CommentContent" ->
            [variant |-> variant,
             title |-> FieldValue("string", Member(j, "title")),
             text |-> FieldValue("string", Member(j, "text"))]
      [] variant = "VcsContent" -> [variant |-> variant, fields |-> j.o]
      [] OTHER -> [variant |-> variant, json |-> j]

\* The nil Content interface value.
NilContent == [variant |-> "nil"]

\* The freshly allocated variant, nothing decoded into it.
EmptyContent(variant) == [variant |-> variant, empty |-> TRUE]

\* json.Unmarshal([]byte(*m.RawContent), &content), content holding a pointer
\* to the chosen variant: text that is not JSON or does not fit the variant
\* is an error and leaves the fresh variant; the literal null sets the
\* interface itself to nil.
UnmarshalContent(variant, j) ==
    CASE j.t = "bad" -> [err |-> TRUE, content |-> EmptyContent(variant)]
      [] j.t = "null" -> [err |-> FALSE, content |-> NilContent]
      [] ~ShapeAccepts(variant, j) ->
            [err |-> TRUE, content |-> EmptyContent(variant)]
      [] OTHER -> [err |-> FALSE, content |-> Populate(variant, j)]

\* Mutant: the error of json.Unmarshal is dropped.
OnUnmarshalError_Ignored(err) == "return"

\* if err := json.Unmarshal(...); err != nil { panic(err.Error()) }
OnUnmarshalError(err) == IF err THEN "panic" ELSE "return"

\* func (m *Message) Content() (content Content)
Content(msg) ==
    LET ev == DerefEvent(msg["event"])
        raw == DerefRawContent(msg["content"])
        r == UnmarshalContent(ContentVariant(ev.s), raw.j)
    IN  CASE ev.panic -> [outcome |-> "panic", why |-> "nil event"]
          [] raw.panic -> [outcome |-> "panic", why |-> "nil content"]
          [] OnUnmarshalError(r.err) = "panic" ->
                [outcome |-> "panic", why |-> "unmarshal"]
          [] OTHER -> [outcome |-> "return", content |-> r.content]

(***************************************************************************)
(* Inputs of the Content() model: Messages with every combination of an    *)
(* event-kind and a raw content below, the other fields nil.               *)
(***************************************************************************)
EventKinds == {"message", "comment", "vcs", "mail", "Message", ""}
CommentObj == JObj([k \in {"title", "text"} |->
                      IF k = "title" THEN JStr("t") ELSE JStr("c")])
\* text must be a string: a shape mismatch for a comment.
CommentBadObj == JObj([k \in {"text"} |-> JNum(5)])
RawContents == {JStr("hi"), JStr(""), JNum(5), JArr(<<"a">>), EmptyObj,
                CommentObj, CommentBadObj, JNull, JBad}
EventFields == {Nil} \cup {[t |-> "string", s |-> e] : e \in EventKinds}
RawFields == {Nil} \cup {[t |-> "raw", j |-> j] : j \in RawContents}
ContentInputs ==
    {[k \in Keys |-> CASE k = "event" -> e [] k = "content" -> c [] OTHER -> Nil] :
        e \in EventFields, c \in RawFields}

(***************************************************************************)
(* Inputs of the stream model.                                             *)
(***************************************************************************)
Orgs == {"acme", "%zz"}
Flows == {"main", "%zz"}
Tokens == {"tok"}

Frame1 == JObj([k \in {"id", "event", "content"} |->
                  CASE k = "id" -> JNum(1)
                    [] k = "event" -> JStr("message")
                    [] OTHER -> JStr("hi")])
Frame2 == JObj([k \in {"id", "tags"} |->
                  IF k = "id" THEN JNum(2) ELSE JArr(<<"a">>)])
\* id must be a number: a shape mismatch.
FrameMismatch == JObj([k \in {"id"} |-> JStr("x")])
FrameData == {Frame1, Frame2, EmptyObj, JBad, FrameMismatch}

NotCalled == [ch |-> "none", es |-> "none", err |-> "none"]

\* fmt.Sprintf("flows/%v/%v?access_token=%v", org, flow, token)
StreamURL(token, org, flow) == <<"flows", org, flow, "access_token", token>>

\* client.NewStreamRequest: fails on a locator that does not parse as a URL
\* (an invalid percent-escape in the path).
NewStreamRequest(u) ==
    IF u[2] = "%zz" \/ u[3] = "%zz"
    THEN [req |-> <<>>, err |-> "parse"]
    ELSE [req |-> u, err |-> "nil"]

\* Mutant: the construction error is not checked.
StreamFailsFast_Ignored(err) == FALSE

\* if err != nil { return nil, nil, err }
StreamFailsFast(err) == err # "nil"

\* Mutant: a failed Read is retried.
AfterRead_Retry(err) == IF err THEN "read" ELSE "decode"

\* if err != nil { log; return } after es.Read()
AfterRead(err) == IF err THEN "return" ELSE "decode"

\* Mutant: a frame that does not decode is skipped and the loop goes on.
AfterUnmarshal_Skip(err) == IF err THEN "read" ELSE "send"

\* Mutant: the decoded Message is not handed over before the next Read.
AfterUnmarshal_NoSend(err) == IF err THEN "return" ELSE "read"

\* if err != nil { log; return } after json.Unmarshal; otherwise the send
AfterUnmarshal(err) == IF err THEN "return" ELSE "send"

\* Mutant: the same Message is sent again.
AfterSend_Again == "send"

\* for { ... messageCh <- *m }: after the send the loop reads again
AfterSend == "read"

\* Mutant: no deferred Close.
DeferredClose_Missing(n) == n

\* defer es.Close(): run once when the goroutine returns
DeferredClose(n) == n + 1

\* Mutant: defer close(messageCh).
ChannelOnReturn_Close(closed) == TRUE

\* the goroutine's return does nothing to messageCh
ChannelOnReturn(closed) == closed

\* EventSource.Read once Close has been called: ErrClosed
ReadFailsWhenClosed(closes) == closes > 0

\* No round trip under way.
RtIdle ==
    /\ rtPc = "idle"
    /\ rtDoc = JNull
    /\ rtMsg = [err |-> FALSE, msg |-> ZeroMessage]
    /\ rtOut = JNull

\* No REST operation called.
RestIdle ==
    /\ restCall = [op |-> "none"]
    /\ restRet = [op |-> "none"]
    /\ httpLog = <<>>

\* No Stream call of the several-subscriptions model made.
MultiIdle ==
    /\ subs = [i \in SubIds |->
                 [state |-> "none", ch |-> 0, es |-> 0, tasks |-> 0,
                  pc |-> "none", event |-> JNull, m |-> ZeroMessage,
                  cancelled |-> FALSE]]
    /\ chans = [c \in SubIds |-> [made |-> FALSE, received |-> <<>>]]
    /\ sources = [e \in SubIds |-> [made |-> FALSE, read |-> <<>>, closes |-> 0]]

Init ==
    /\ RtIdle
    /\ RestIdle
    /\ MultiIdle
    /\ ret = NotCalled
    /\ req = <<>>
    /\ chMade = FALSE
    /\ chClosed = FALSE
    /\ esMade = FALSE
    /\ esCloseCalls = 0
    /\ cancelled = FALSE
    /\ pc = "none"
    /\ event = JNull
    /\ m = ZeroMessage
    /\ arrived = <<>>
    /\ nReads = 0
    /\ received = <<>>
    /\ consumer = "receiving"
    /\ log = "none"
    /\ readFailed = FALSE
    /\ cm = ZeroMessage
    /\ cres = [outcome |-> "none"]

\* MessagesService.Stream(token, org, flow)
Stream ==
    /\ ret = NotCalled
    /\ \E token \in Tokens, org \in Orgs, flow \in Flows :
         LET r == NewStreamRequest(StreamURL(token, org, flow)) IN
         IF StreamFailsFast(r.err)
         THEN /\ ret' = [ch |-> "nil", es |-> "nil", err |-> r.err]
              /\ UNCHANGED <<req, chMade, esMade, pc>>
         ELSE /\ chMade' = TRUE
              /\ esMade' = TRUE
              /\ req' = r.req
              /\ pc' = "read"
              /\ ret' = [ch |-> "messageCh", es |-> "es", err |-> r.err]
    /\ UNCHANGED <<chClosed, esCloseCalls, cancelled, event, m, arrived, nReads,
                   received, consumer, log, readFailed, auxVars>>

\* The goroutine returns: the deferred es.Close() runs.
Return(why) ==
    /\ pc' = "done"
    /\ log' = why
    /\ esCloseCalls' = DeferredClose(esCloseCalls)
    /\ chClosed' = ChannelOnReturn(chClosed)

\* event, err := es.Read() fails (the source is closed, or a terminal read
\* error), and the check of err that follows.
TaskReadError ==
    /\ pc = "read"
    /\ nReads <= MaxFrames
    /\ nReads' = nReads + 1
    /\ readFailed' = TRUE
    /\ IF AfterRead(TRUE) = "return"
       THEN Return("read") /\ UNCHANGED event
       ELSE /\ pc' = AfterRead(TRUE)
            /\ event' = JNull
            /\ UNCHANGED <<log, esCloseCalls, chClosed>>
    /\ UNCHANGED <<ret, req, chMade, esMade, cancelled, m, arrived, received,
                   consumer, auxVars>>

\* event, err := es.Read() yields the next frame, and the check of err.
TaskReadFrame ==
    /\ pc = "read"
    /\ nReads <= MaxFrames
    /\ Len(arrived) < MaxFrames
    /\ ~ReadFailsWhenClosed(esCloseCalls)
    /\ \E data \in FrameData :
         /\ arrived' = Append(arrived, data)
         /\ event' = data
    /\ nReads' = nReads + 1
    /\ IF AfterRead(FALSE) = "return"
       THEN Return("read")
       ELSE pc' = AfterRead(FALSE) /\ UNCHANGED <<log, esCloseCalls, chClosed>>
    /\ UNCHANGED <<ret, req, chMade, esMade, cancelled, m, received, consumer,
                   readFailed, auxVars>>

\* m := new(Message); err = json.Unmarshal([]byte(event.Data), m), and the
\* check of err.
TaskDecode ==
    /\ pc = "decode"
    /\ LET r == UnmarshalMessage(event) IN
         /\ m' = r.msg
         /\ IF AfterUnmarshal(r.err) = "return"
            THEN Return("json")
            ELSE /\ pc' = AfterUnmarshal(r.err)
                 /\ UNCHANGED <<log, esCloseCalls, chClosed>>
    /\ UNCHANGED <<ret, req, chMade, esMade, cancelled, event, arrived, nReads,
                   received, consumer, readFailed, auxVars>>

\* messageCh <- *m meets the consumer's receive (the channel is unbuffered);
\* a receive from a closed channel yields the zero Message at once.
Receive ==
    /\ consumer = "receiving"
    /\ ret.ch = "messageCh"
    /\ Len(received) <= MaxFrames
    /\ IF chClosed
       THEN /\ received' = Append(received, ZeroMessage)
            /\ UNCHANGED pc
       ELSE /\ pc = "send"
            /\ received' = Append(received, m)
            /\ pc' = AfterSend
    /\ UNCHANGED <<ret, req, chMade, chClosed, esMade, esCloseCalls, cancelled,
                   event, m, arrived, nReads, consumer, log, readFailed,
                   auxVars>>

\* The consumer stops receiving from the channel.
ConsumerStop ==
    /\ consumer = "receiving"
    /\ ret.ch = "messageCh"
    /\ consumer' = "stopped"
    /\ UNCHANGED <<ret, req, chMade, chClosed, esMade, esCloseCalls, cancelled,
                   pc, event, m, arrived, nReads, received, log, readFailed,
                   auxVars>>

\* The caller cancels: es.Close() on the returned handle.
CallerClose ==
    /\ ret.es = "es"
    /\ ~cancelled
    /\ cancelled' = TRUE
    /\ esCloseCalls' = esCloseCalls + 1
    /\ UNCHANGED <<ret, req, chMade, chClosed, esMade, pc, event, m, arrived,
                   nReads, received, consumer, log, readFailed, auxVars>>

Next ==
    \/ Stream
    \/ TaskReadError
    \/ TaskReadFrame
    \/ TaskDecode
    \/ Receive
    \/ ConsumerStop
    \/ CallerClose

Spec == Init /\ [][Next]_vars

\* The goroutine's own steps are taken when they can be, a Read on a closed
\* source returns, and a send meets a consumer that is receiving.  A Read on
\* an open source may block for ever, and so may a send nobody receives.
FairSpec ==
    /\ Spec
    /\ WF_vars(TaskReadError /\ ReadFailsWhenClosed(esCloseCalls))
    /\ WF_vars(TaskDecode)
    /\ WF_vars(Receive)

(***************************************************************************)
(* Content() on its own: a Message is drawn, Content() is called on it.    *)
(***************************************************************************)
ContentInit ==
    /\ RtIdle
    /\ RestIdle
    /\ MultiIdle
    /\ cm \in ContentInputs
    /\ cres = [outcome |-> "none"]
    /\ ret = NotCalled
    /\ req = <<>>
    /\ chMade = FALSE
    /\ chClosed = FALSE
    /\ esMade = FALSE
    /\ esCloseCalls = 0
    /\ cancelled = FALSE
    /\ pc = "none"
    /\ event = JNull
    /\ m = ZeroMessage
    /\ arrived = <<>>
    /\ nReads = 0
    /\ received = <<>>
    /\ consumer = "receiving"
    /\ log = "none"
    /\ readFailed = FALSE

\* content := cm.Content()
CallContent ==
    /\ cres.outcome = "none"
    /\ cres' = Content(cm)
    /\ UNCHANGED <<cm, streamVars, rtVars, restVars, multiVars>>

ContentNext == CallContent

ContentSpec == ContentInit /\ [][ContentNext]_vars
(***************************************************************************)
(* Decoding a payload into a Message and encoding the Message again.       *)
(***************************************************************************)
\* The stream and Content() models at rest.
StreamIdle ==
    /\ ret = NotCalled
    /\ req = <<>>
    /\ chMade = FALSE
    /\ chClosed = FALSE
    /\ esMade = FALSE
    /\ esCloseCalls = 0
    /\ cancelled = FALSE
    /\ pc = "none"
    /\ event = JNull
    /\ m = ZeroMessage
    /\ arrived = <<>>
    /\ nReads = 0
    /\ received = <<>>
    /\ consumer = "receiving"
    /\ log = "none"
    /\ readFailed = FALSE

ContentIdle ==
    /\ cm = ZeroMessage
    /\ cres = [outcome |-> "none"]

RtInit ==
    /\ StreamIdle
    /\ ContentIdle
    /\ RestIdle
    /\ MultiIdle
    /\ rtPc = "start"
    /\ rtDoc \in RtDocs
    /\ rtMsg = [err |-> FALSE, msg |-> ZeroMessage]
    /\ rtOut = JNull

\* err := json.Unmarshal(payload, &msg)
RtDecode ==
    /\ rtPc = "start"
    /\ rtMsg' = UnmarshalMessage(rtDoc)
    /\ rtPc' = "decoded"
    /\ UNCHANGED <<rtDoc, rtOut, streamVars, contentVars, restVars, multiVars>>

\* out, _ := json.Marshal(msg)
RtEncode ==
    /\ rtPc = "decoded"
    /\ ~rtMsg.err
    /\ rtOut' = MarshalMessage(rtMsg.msg)
    /\ rtPc' = "encoded"
    /\ UNCHANGED <<rtDoc, rtMsg, streamVars, contentVars, restVars, multiVars>>

RtNext == RtDecode \/ RtEncode

RtSpec == RtInit /\ [][RtNext]_vars

(***************************************************************************)
(* The REST operations: List, Get, Edit, Delete, CreateComment, Create.    *)
(***************************************************************************)
\* One field's url tag.
UrlTag(field, name, kind) ==
    [field |-> field, name |-> name, kind |-> kind, omitempty |-> TRUE,
     comma |-> kind = "strs"]

\* Mutant: Limit tagged `url:"limit"`, without omitempty.
ListOptionTags_LimitAlways ==
    {UrlTag("Event", "event", "string"),
     [UrlTag("Limit", "limit", "int") EXCEPT !.omitempty = FALSE],
     UrlTag("SinceID", "since_id", "int"),
     UrlTag("UntilID", "until_id", "int"),
     UrlTag("Tags", "tags", "strs"),
     UrlTag("TagMode", "tag_mode", "string"),
     UrlTag("Search", "search", "string")}

\* type MessagesListOptions: the url tag of each field.
ListOptionTags ==
    {UrlTag("Event", "event", "string"),
     UrlTag("Limit", "limit", "int"),
     UrlTag("SinceID", "since_id", "int"),
     UrlTag("UntilID", "until_id", "int"),
     UrlTag("Tags", "tags", "strs"),
     UrlTag("TagMode", "tag_mode", "string"),
     UrlTag("Search", "search", "string")}

\* type MessagesEditOptions: the url tag of each field.
EditOptionTags ==
    {UrlTag("Content", "content", "string"),
     UrlTag("Tags", "tags", "strs")}

\* Mutant: Subject tagged `url:"source,omitempty"`, a copy-and-paste slip.
CreateOptionTags_SubjectAsSource ==
    {UrlTag("FlowID", "flow", "string"),
     UrlTag("MessageID", "message", "int"),
     UrlTag("Event", "event", "string"),
     UrlTag("Content", "content", "string"),
     UrlTag("Tags", "tags", "strs"),
     UrlTag("UUID", "uuid", "string"),
     UrlTag("ExternalUserName", "external_user_name", "string"),
     UrlTag("Subject", "source", "string"),
     UrlTag("FromAddress", "from_address", "string")}

\* type MessagesCreateOptions: the url tag of each field.
CreateOptionTags ==
    {UrlTag("FlowID", "flow", "string"),
     UrlTag("MessageID", "message", "int"),
     UrlTag("Event", "event", "string"),
     UrlTag("Content", "content", "string"),
     UrlTag("Tags", "tags", "strs"),
     UrlTag("UUID", "uuid", "string"),
     UrlTag("ExternalUserName", "external_user_name", "string"),
     UrlTag("Subject", "subject", "string"),
     UrlTag("FromAddress", "from_address", "string"),
     UrlTag("Source", "source", "string")}

\* Option values: the zero value of a field's type, and a non-zero one.
ZeroOption(kind) ==
    CASE kind = "int" -> [t |-> "int", n |-> 0]
      [] kind = "string" -> [t |-> "string", s |-> ""]
      [] OTHER -> [t |-> "strs", a |-> <<>>]

SampleOption(field) ==
    CASE field = "Limit" -> [t |-> "int", n |-> 3]
      [] field = "SinceID" -> [t |-> "int", n |-> 5]
      [] field = "UntilID" -> [t |-> "int", n |-> 10]
      [] field = "MessageID" -> [t |-> "int", n |-> 42]
      [] field = "Tags" -> [t |-> "strs", a |-> <<"a", "b">>]
      [] field = "TagMode" -> [t |-> "string", s |-> "and"]
      [] field = "Content" -> [t |-> "string", s |-> "Howdy-Doo @Jackie #awesome"]
      [] field = "Subject" -> [t |-> "string", s |-> "a subject"]
      [] OTHER -> [t |-> "string", s |-> "x"]

\* The option bundles of a struct: every field at its zero or its sample value.
Bundles(tags) ==
    LET fields == {tg.field : tg \in tags}
        kindOf(f) == (CHOOSE tg \in tags : tg.field = f).kind
    IN  {[f \in fields |-> IF f \in set THEN SampleOption(f)
                                         ELSE ZeroOption(kindOf(f))] :
            set \in SUBSET fields}

\* The decimal digits of a natural number, as strconv.Itoa writes them.
RECURSIVE DecimalDigits(_)
DecimalDigits(n) ==
    LET digit(d) == <<"0", "1", "2", "3", "4", "5", "6", "7", "8", "9">>[d + 1]
    IN  IF n < 10 THEN <<digit(n)>>
        ELSE DecimalDigits(n \div 10) \o <<digit(n % 10)>>

\* strings.Join(a, ","), as the pieces of the joined string.
RECURSIVE CommaJoin(_)
CommaJoin(a) ==
    IF Len(a) = 0 THEN <<>>
    ELSE IF Len(a) = 1 THEN <<a[1]>>
    ELSE <<a[1], ",">> \o CommaJoin(Tail(a))

\* omitempty: the zero value of the field's type, an empty slice included.
IsEmptyValue(v) ==
    CASE v.t = "int" -> v.n = 0
      [] v.t = "string" -> v.s = ""
      [] OTHER -> Len(v.a) = 0

\* The text of a parameter, as the pieces of the string.
ParamText(v) ==
    CASE v.t = "int" -> DecimalDigits(v.n)
      [] v.t = "string" -> <<v.s>>
      [] OTHER -> CommaJoin(v.a)

\* query.Values(opt): one parameter per field its tag does not leave out.
EncodeValues(tags, opt) ==
    LET kept == {tg \in tags : ~(tg.omitempty /\ IsEmptyValue(opt[tg.field]))}
        tagOf(n) == CHOOSE tg \in kept : tg.name = n
    IN  [n \in {tg.name : tg \in kept} |-> ParamText(opt[tagOf(n).field])]

NoQuery == [n \in {} |-> <<>>]

\* addOptions(u, opt): the options merged into the URL as its query; on
\* failure the URL is handed back as it came, with the error.
AddOptions(u, tags, opt, fails) ==
    IF fails
    THEN [u |-> u, err |-> "options"]
    ELSE [u |-> [path |-> u.path, query |-> EncodeValues(tags, opt)],
          err |-> "nil"]

\* client.NewRequest(method, u, nil)
NewRequest(method, u, fails) ==
    IF fails
    THEN [req |-> Nil, err |-> "request"]
    ELSE [req |-> [method |-> method, path |-> u.path, query |-> u.query],
          err |-> "nil"]

NilResp == [status |-> 0]

\* json decoding of a response body into `var messages []Message`: null
\* leaves the slice nil, an array makes it a slice of the decoded elements
\* (empty, not nil, for []), anything else is an error.
UnmarshalList(body) ==
    CASE body.t = "null" -> [err |-> FALSE, v |-> Nil]
      [] body.t # "arr" -> [err |-> TRUE, v |-> Nil]
      [] OTHER ->
            [err |-> \E i \in 1..Len(body.a) : UnmarshalMessage(body.a[i]).err,
             v |-> [t |-> "list",
                    msgs |-> [i \in 1..Len(body.a) |->
                                UnmarshalMessage(body.a[i]).msg]]]

\* client.Do(req, v): a transport error gives no response; a status outside
\* 2xx is an API error; otherwise the body is decoded into v (v = nil: not
\* decoded), and a body that does not decode is an error that may leave v
\* partly filled.
Do(answer, into) ==
    CASE answer.status = 0 ->
            [resp |-> NilResp, err |-> "transport", v |-> Nil]
      [] answer.status \notin 200..299 ->
            [resp |-> [status |-> answer.status], err |-> "api", v |-> Nil]
      [] into = "nothing" ->
            [resp |-> [status |-> answer.status], err |-> "nil", v |-> Nil]
      [] into = "list" ->
            LET r == UnmarshalList(answer.body) IN
            [resp |-> [status |-> answer.status],
             err |-> IF r.err THEN "decode" ELSE "nil", v |-> r.v]
      [] OTHER ->
            LET r == UnmarshalMessage(answer.body) IN
            [resp |-> [status |-> answer.status],
             err |-> IF r.err THEN "decode" ELSE "nil",
             v |-> [t |-> "ptr", msg |-> r.msg]]

\* The server's answers: no answer (a transport error), a 500, or a 200 with
\* one of the bodies.
ServerAnswers(bodies) ==
    {[status |-> 0, body |-> JNull], [status |-> 500, body |-> JBad]}
        \cup {[status |-> 200, body |-> b] : b \in bodies}

MessageBodies == {EmptyObj, Frame1, FrameMismatch, JBad, JNull}
ListBodies == {JArr(<<>>), JArr(<<Frame1, Frame2>>), JArr(<<Frame2, Frame1>>),
               JArr(<<Frame1, FrameMismatch>>), JBad, JNull}

\* What the collaborators answer to one call: whether addOptions and
\* NewRequest fail, and the server's answer.
Envs(bodies) ==
    [addErr : BOOLEAN, reqErr : BOOLEAN, answer : ServerAnswers(bodies)]

\* return nil, nil, err: the construction error, nothing sent.
NotSent(err) ==
    [ret |-> [result |-> Nil, resp |-> NilResp, err |-> err], http |-> <<>>]

\* Mutant: the value client.Do decoded into is returned with the error.
ResultOnError_Partial(v) == v

\* if err != nil { return nil, resp, err }
ResultOnError(v) == Nil

\* resp, err := s.client.Do(req, v) and the two returns that follow it.
Sent(rq, answer, into) ==
    LET d == Do(answer, into) IN
    [ret |-> [result |-> IF d.err # "nil" THEN ResultOnError(d.v) ELSE d.v,
              resp |-> d.resp, err |-> d.err],
     http |-> <<rq>>]

\* return s.client.Do(req, nil): Edit and Delete return a response only.
SentBare(rq, answer) ==
    LET d == Do(answer, "nothing") IN
    [ret |-> [result |-> Nil, resp |-> d.resp, err |-> d.err], http |-> <<rq>>]

\* fmt.Sprintf("flows/%v/%v/messages", org, flow)
ListPath(org, flow) == <<"flows", org, flow, "messages">>

\* fmt.Sprintf("flows/%v/%v/messages/%d", org, flowName, id)
MessagePath(org, flow, id) ==
    <<"flows", org, flow, "messages">> \o DecimalDigits(id)

\* fmt.Sprintf("/flows/%s/%s/messages/%d", org, flowName, id)
RootedMessagePath(org, flow, id) == <<"/">> \o MessagePath(org, flow, id)

\* func (s *MessagesService) List(org, flow, opt)
ListCall(org, flow, opt, env) ==
    LET a == AddOptions([path |-> ListPath(org, flow), query |-> NoQuery],
                        ListOptionTags, opt, env.addErr)
        r == NewRequest("GET", a.u, env.reqErr)
    IN  IF a.err # "nil" THEN NotSent(a.err)
        ELSE IF r.err # "nil" THEN NotSent(r.err)
        ELSE Sent(r.req, env.answer, "list")

\* func (s *MessagesService) Get(org, flowName, id)
GetCall(org, flow, id, env) ==
    LET r == NewRequest("GET", [path |-> MessagePath(org, flow, id),
                                query |-> NoQuery], env.reqErr)
    IN  IF r.err # "nil" THEN NotSent(r.err)
        ELSE Sent(r.req, env.answer, "message")

\* func (s *MessagesService) Edit(org, flowName, id, opt)
EditCall(org, flow, id, opt, env) ==
    LET a == AddOptions([path |-> RootedMessagePath(org, flow, id),
                         query |-> NoQuery],
                        EditOptionTags, opt, env.addErr)
        r == NewRequest("PUT", a.u, env.reqErr)
    IN  IF a.err # "nil" THEN NotSent(a.err)
        ELSE IF r.err # "nil" THEN NotSent(r.err)
        ELSE SentBare(r.req, env.answer)

\* func (s *MessagesService) Delete(org, flowName, id)
DeleteCall(org, flow, id, env) ==
    LET r == NewRequest("DELETE", [path |-> RootedMessagePath(org, flow, id),
                                   query |-> NoQuery], env.reqErr)
    IN  IF r.err # "nil" THEN NotSent(r.err)
        ELSE SentBare(r.req, env.answer)

\* The body shared by CreateComment and Create: err of addOptions is
\* overwritten by NewRequest's before anything reads it.
PostCall(path, opt, env) ==
    LET a == AddOptions([path |-> path, query |-> NoQuery],
                        CreateOptionTags, opt, env.addErr)
        r == NewRequest("POST", a.u, env.reqErr)
    IN  IF r.err # "nil" THEN NotSent(r.err)
        ELSE Sent(r.req, env.answer, "message")

\* func (s *MessagesService) CreateComment(opt)
CreateCommentCall(opt, env) == PostCall(<<"comments">>, opt, env)

\* func (s *MessagesService) Create(opt)
CreateCall(opt, env) == PostCall(<<"messages">>, opt, env)

RestInit ==
    /\ StreamIdle
    /\ ContentIdle
    /\ RtIdle
    /\ RestIdle
    /\ MultiIdle

\* One call of an operation: its inputs are recorded, its outcome returned.
\* Each run makes one call: the operations share no state across calls.
Called(op, opt, env, out) ==
    /\ restCall' = [op |-> op, opt |-> opt, env |-> env]
    /\ restRet' = [op |-> op] @@ out.ret
    /\ httpLog' = httpLog \o out.http
    /\ UNCHANGED <<streamVars, contentVars, rtVars, multiVars>>

MessageIds == {7, 12}

List ==
    /\ restCall.op = "none"
    /\ \E opt \in Bundles(ListOptionTags), env \in Envs(ListBodies) :
            Called("List", opt, env, ListCall("acme", "main", opt, env))

Get ==
    /\ restCall.op = "none"
    /\ \E id \in MessageIds, env \in Envs(MessageBodies) :
            Called("Get", <<id>>, env, GetCall("acme", "main", id, env))

Edit ==
    /\ restCall.op = "none"
    /\ \E id \in MessageIds, opt \in Bundles(EditOptionTags),
           env \in Envs(MessageBodies) :
            Called("Edit", opt, env, EditCall("acme", "main", id, opt, env))

Delete ==
    /\ restCall.op = "none"
    /\ \E id \in MessageIds, env \in Envs(MessageBodies) :
            Called("Delete", <<id>>, env, DeleteCall("acme", "main", id, env))

CreateComment ==
    /\ restCall.op = "none"
    /\ \E opt \in Bundles(CreateOptionTags), env \in Envs(MessageBodies) :
            Called("CreateComment", opt, env, CreateCommentCall(opt, env))

Create ==
    /\ restCall.op = "none"
    /\ \E opt \in Bundles(CreateOptionTags), env \in Envs(MessageBodies) :
            Called("Create", opt, env, CreateCall(opt, env))

RestNext == List \/ Get \/ Edit \/ Delete \/ CreateComment \/ Create

RestSpec == RestInit /\ [][RestNext]_vars

(***************************************************************************)
(* Several subscriptions at once: each Stream call has its own locals      *)
(* messageCh and es, captured by the goroutine it starts.                  *)
(***************************************************************************)
\* How many channels (event sources) of a pool have been created.
NumMade(pool) == Cardinality({x \in DOMAIN pool : pool[x].made})

\* Mutant: one package-level channel shared by every call.
MakeChan_Shared(pool) == 1

\* messageCh := make(chan Message): a channel no earlier call has.
MakeChan(pool) == NumMade(pool) + 1

\* es := eventsource.New(req, retryDuration): a source, and a connection, of
\* its own.
NewEventSource(pool) == NumMade(pool) + 1

\* The k-th frame source e delivers: its id tells the sources apart.
SourceFrame(e, k) == JObj([key \in {"id"} |-> JNum(10 * e + k)])

\* The goroutine of subscription i returns: the deferred es.Close() runs on
\* the source it captured.
SubReturn(i) ==
    /\ subs' = [subs EXCEPT ![i].pc = "done"]
    /\ sources' = [sources EXCEPT ![subs[i].es].closes = DeferredClose(@)]
    /\ UNCHANGED chans

MultiInit ==
    /\ StreamIdle
    /\ ContentIdle
    /\ RtIdle
    /\ RestIdle
    /\ MultiIdle

\* MessagesService.Stream called for the next subscription.
SubStream ==
    \E i \in SubIds :
      /\ subs[i].state = "none"
      /\ \A j \in SubIds : j < i => subs[j].state # "none"
      /\ \E org \in Orgs :
           LET r == NewStreamRequest(StreamURL("tok", org, "main")) IN
           IF StreamFailsFast(r.err)
           THEN /\ subs' = [subs EXCEPT ![i].state = "failed"]
                /\ UNCHANGED <<chans, sources>>
           ELSE LET ch == MakeChan(chans)
                    es == NewEventSource(sources)
                IN  /\ chans' = [chans EXCEPT ![ch].made = TRUE]
                    /\ sources' = [sources EXCEPT ![es].made = TRUE]
                    /\ subs' = [subs EXCEPT ![i] =
                                  [@ EXCEPT !.state = "live", !.ch = ch,
                                            !.es = es, !.tasks = @ + 1,
                                            !.pc = "read"]]
      /\ UNCHANGED <<streamVars, contentVars, rtVars, restVars>>

\* es.Read() fails in the goroutine of subscription i.
SubReadError ==
    \E i \in SubIds :
      /\ subs[i].pc = "read"
      /\ IF AfterRead(TRUE) = "return"
         THEN SubReturn(i)
         ELSE UNCHANGED <<subs, chans, sources>>
      /\ UNCHANGED <<streamVars, contentVars, rtVars, restVars>>

\* es.Read() yields the next frame of the source subscription i captured.
SubReadFrame ==
    \E i \in SubIds :
      /\ subs[i].pc = "read"
      /\ Len(sources[subs[i].es].read) < MaxSubFrames
      /\ ~ReadFailsWhenClosed(sources[subs[i].es].closes)
      /\ \E data \in {SourceFrame(subs[i].es,
                                  Len(sources[subs[i].es].read) + 1), JBad} :
           /\ sources' = [sources EXCEPT ![subs[i].es].read = Append(@, data)]
           /\ subs' = [subs EXCEPT ![i].event = data,
                                   ![i].pc = AfterRead(FALSE)]
      /\ UNCHANGED <<chans, streamVars, contentVars, rtVars, restVars>>

\* json.Unmarshal of the frame in the goroutine of subscription i.
SubDecode ==
    \E i \in SubIds :
      /\ subs[i].pc = "decode"
      /\ LET r == UnmarshalMessage(subs[i].event) IN
           IF AfterUnmarshal(r.err) = "return"
           THEN SubReturn(i)
           ELSE /\ subs' = [subs EXCEPT ![i].m = r.msg,
                                        ![i].pc = AfterUnmarshal(r.err)]
                /\ UNCHANGED <<chans, sources>>
      /\ UNCHANGED <<streamVars, contentVars, rtVars, restVars>>

\* The consumer of subscription i receives from the channel Stream returned
\* to it: a goroutine blocked in a send on that channel hands over its
\* Message.
SubReceive ==
    \E i \in SubIds, j \in SubIds :
      /\ subs[i].state = "live"
      /\ subs[j].pc = "send"
      /\ subs[j].ch = subs[i].ch
      /\ chans' = [chans EXCEPT ![subs[i].ch].received = Append(@, subs[j].m)]
      /\ subs' = [subs EXCEPT ![j].pc = AfterSend]
      /\ UNCHANGED <<sources, streamVars, contentVars, rtVars, restVars>>

\* The caller of subscription i calls Close on the handle it was given.
SubClose ==
    \E i \in SubIds :
      /\ subs[i].state = "live"
      /\ ~subs[i].cancelled
      /\ subs' = [subs EXCEPT ![i].cancelled = TRUE]
      /\ sources' = [sources EXCEPT ![subs[i].es].closes = @ + 1]
      /\ UNCHANGED <<chans, streamVars, contentVars, rtVars, restVars>>

MultiNext ==
    \/ SubStream
    \/ SubReadError
    \/ SubReadFrame
    \/ SubDecode
    \/ SubReceive
    \/ SubClose

MultiSpec == MultiInit /\ [][MultiNext]_vars

(***************************************************************************)
(* Properties.                                                             *)
(***************************************************************************)
\* The error-free decode of each frame of a sequence.
Decoded(frames) == [i \in 1..Len(frames) |-> UnmarshalMessage(frames[i]).msg]

WellFormed(data) == ~UnmarshalMessage(data).err

\* C1: the Messages received from the channel are, in order, the decodes of
\* the first frames that arrived (nothing duplicated or reordered), and
\* whenever the goroutine is back at Read every frame that arrived has been
\* received (nothing dropped).
C1_DeliveredInOrder ==
    /\ Len(received) <= Len(arrived)
    /\ \A i \in 1..Len(received) :
         WellFormed(arrived[i]) /\ received[i] = Decoded(arrived)[i]
    /\ pc = "read" => Len(received) = Len(arrived)

C1_Witness ==
    /\ Len(received) = 3
    /\ received[1] # received[2]
    /\ received[2] # received[3]

\* C2: once the caller has closed the handle, the consumer is handed no
\* further Message.
C2_NoSendAfterClose == [][cancelled => received' = received]_vars

\* C3: once the caller has closed the handle, the goroutine eventually
\* returns.
C3_ExitsAfterClose == cancelled ~> (pc = "done")

\* C4: once Read has returned an error, the goroutine has returned and closed
\* the source, every frame read before was delivered, and from then on there
\* is neither another Read nor another delivery.
C4_ReadErrorIsTerminal ==
    /\ [](readFailed =>
            /\ pc = "done"
            /\ esCloseCalls >= 1
            /\ Len(received) = Len(arrived)
            /\ received = Decoded(arrived))
    /\ [][readFailed =>
            /\ nReads' = nReads
            /\ received' = received
            /\ pc' = "done"]_vars

C4_Witness ==
    /\ readFailed
    /\ ~cancelled
    /\ Len(arrived) = 2
    /\ Len(received) = 2
    /\ pc = "done"

\* C5 as claimed: Close is invoked on the handle at most once.
C5_ClosedAtMostOnce == esCloseCalls <= 1

\* C5 as amended: the goroutine invokes Close exactly once, when it returns,
\* and not before; the handle sees one more invocation when the caller has
\* cancelled, so two in all once a cancelled subscription's goroutine is done.
C5_TaskClosesOnce ==
    esCloseCalls = (IF pc = "done" THEN 1 ELSE 0) + (IF cancelled THEN 1 ELSE 0)

C5_Witness == cancelled /\ pc = "done" /\ esCloseCalls = 2

\* The last frame that arrived has been through Unmarshal and did not decode.
DecodeFailed ==
    /\ arrived # <<>>
    /\ ~WellFormed(arrived[Len(arrived)])
    /\ pc # "decode"

\* C6: when a frame does not decode, no Message is sent for it, the goroutine
\* has returned and closed the source, and no later frame is read or
\* delivered.
C6_DecodeErrorIsTerminal ==
    /\ [](DecodeFailed =>
            /\ pc = "done"
            /\ esCloseCalls >= 1
            /\ Len(received) = Len(arrived) - 1
            /\ \A i \in 1..Len(received) : received[i] = Decoded(arrived)[i])
    /\ [][DecodeFailed =>
            /\ arrived' = arrived
            /\ nReads' = nReads
            /\ received' = received
            /\ pc' = "done"]_vars
    /\ [](\A i \in 1..Len(arrived) : ~WellFormed(arrived[i]) => i = Len(arrived))

C6_Witness ==
    /\ DecodeFailed
    /\ Len(arrived) = 2
    /\ Len(received) = 1
    /\ consumer = "receiving"
    /\ ~cancelled
    /\ log = "json"

\* C7: the output channel is never closed, whatever ended the subscription.
C7_ChannelNeverClosed == chMade => ~chClosed

C7_Witness ==
    /\ pc = "done"
    /\ cancelled
    /\ chMade
    /\ ~chClosed
    /\ consumer = "receiving"

\* C8: a construction error is returned with a nil channel and a nil handle,
\* with no channel made, no event source created and no goroutine started; a
\* channel or a handle is returned only with a nil error.
C8_FailsFast ==
    /\ ret.err \notin {"none", "nil"} =>
         /\ ret.ch = "nil"
         /\ ret.es = "nil"
         /\ ~chMade
         /\ ~esMade
         /\ req = <<>>
         /\ pc = "none"
    /\ (ret.ch = "messageCh" \/ ret.es = "es") =>
         /\ ret.err = "nil"
         /\ ret.ch = "messageCh"
         /\ ret.es = "es"

C8_Witness == ret.err = "parse" /\ ret.ch = "nil"

\* The variant the table of event-kinds names.
VariantOfKind(kind) ==
    IF kind = "message" THEN "MessageContent"
    ELSE IF kind = "comment" THEN "CommentContent"
    ELSE IF kind = "vcs" THEN "VcsContent"
    ELSE "JsonContent"

\* The raw content is there and is a JSON value of the variant's shape (null
\* carries nothing to populate a variant from).
ValidContent(variant, raw) ==
    /\ raw # Nil
    /\ raw.j.t \notin {"bad", "null"}
    /\ ShapeAccepts(variant, raw.j)

\* C9: with the event-kind present and content valid for the shape it
\* selects, Content() returns the variant of the event-kind ("message",
\* "comment", "vcs", anything else generic), populated from the raw content.
C9_VariantByEventKind ==
    (/\ cres.outcome # "none"
     /\ cm["event"] # Nil
     /\ ValidContent(VariantOfKind(cm["event"].s), cm["content"])) =>
        /\ cres.outcome = "return"
        /\ cres.content.variant = VariantOfKind(cm["event"].s)
        /\ cres.content = Populate(VariantOfKind(cm["event"].s), cm["content"].j)

C9_Witness ==
    /\ cres.outcome = "return"
    /\ cm["event"] = [t |-> "string", s |-> "comment"]
    /\ cres.content.variant = "CommentContent"
    /\ cres.content.text = [t |-> "string", s |-> "c"]

\* C10 as claimed: with the event-kind absent and valid content, Content()
\* returns the generic JSON variant decoded from the content.
C10_AbsentKindIsGeneric ==
    (/\ cres.outcome # "none"
     /\ cm["event"] = Nil
     /\ ValidContent("JsonContent", cm["content"])) =>
        /\ cres.outcome = "return"
        /\ cres.content = Populate("JsonContent", cm["content"].j)

\* C10 as amended: with the event-kind absent Content() returns nothing, it
\* panics on the nil event-kind, whatever the content; the generic variant
\* is returned only for a present event-kind other than the three named.
C10_AbsentKindPanics ==
    /\ (cres.outcome # "none" /\ cm["event"] = Nil) =>
          cres = [outcome |-> "panic", why |-> "nil event"]
    /\ (cres.outcome = "return" /\ cres.content.variant = "JsonContent") =>
          /\ cm["event"] # Nil
          /\ cm["event"].s \notin {"message", "comment", "vcs"}

C10_Witness ==
    /\ cres.outcome = "panic"
    /\ cm["event"] = Nil
    /\ ValidContent("JsonContent", cm["content"])
\* C11: Content() on a Message whose event-kind or raw content is absent
\* returns no content: it panics on the nil pointer (nothing is logged, no
\* error value is handed back).
C11_AbsentFieldPanics ==
    (/\ cres.outcome # "none"
     /\ (cm["event"] = Nil \/ cm["content"] = Nil)) =>
        /\ cres.outcome = "panic"
        /\ cres.why = (IF cm["event"] = Nil THEN "nil event" ELSE "nil content")

C11_Witness ==
    /\ cres.outcome = "panic"
    /\ cm["event"] = [t |-> "string", s |-> "message"]
    /\ cm["content"] = Nil

\* Event-kind and raw content are there, and json.Unmarshal of the raw
\* content into the selected variant fails.
Undecodable(msg) ==
    /\ msg["event"] # Nil
    /\ msg["content"] # Nil
    /\ msg["content"].j.t # "null"
    /\ \/ msg["content"].j.t = "bad"
       \/ ~ShapeAccepts(VariantOfKind(msg["event"].s), msg["content"].j)

\* C12 as claimed: raw content that cannot be decoded into the selected
\* variant makes Content() hand an error to its caller.
C12_FailureIsAnError ==
    (cres.outcome # "none" /\ Undecodable(cm)) => cres.outcome = "error"

\* C12 as amended: raw content that cannot be decoded into the selected
\* variant makes Content() panic with the decoding error; no content, empty
\* or otherwise, is returned (Content() has no error result).
C12_FailurePanics ==
    (cres.outcome # "none" /\ Undecodable(cm)) =>
        cres = [outcome |-> "panic", why |-> "unmarshal"]

C12_Witness ==
    /\ cres = [outcome |-> "panic", why |-> "unmarshal"]
    /\ cm["event"] = [t |-> "string", s |-> "comment"]
    /\ cm["content"] = [t |-> "raw", j |-> CommentBadObj]

\* C16: the goroutine is never more than one frame ahead of the consumer:
\* the frames read exceed the Messages received by at most one.
C16_AtMostOneAhead == Len(arrived) - Len(received) <= 1

C16_Witness ==
    /\ Len(arrived) = 3
    /\ Len(received) = 2
    /\ pc = "send"
    /\ consumer = "stopped"
\* C13 as claimed: decoding a payload and encoding the Message again gives
\* the payload back, the same keys with the same values.
C13_RoundTripIsIdentity == rtPc = "encoded" => rtOut = rtDoc

\* The keys of a payload whose value is not null.
NonNullKeys(doc) == {k \in DOMAIN doc.o : doc.o[k].t # "null"}

\* C13 as amended: the encoding has exactly the keys the payload gives a
\* non-null value, each with the payload's value (zero values 0, "" and []
\* included); a key the payload gives as null is decoded to absent and left
\* out.
C13_RoundTripKeepsNonNull ==
    rtPc = "encoded" =>
        /\ rtOut.t = "obj"
        /\ DOMAIN rtOut.o = NonNullKeys(rtDoc)
        /\ \A k \in NonNullKeys(rtDoc) : rtOut.o[k] = rtDoc.o[k]

C13_Witness ==
    /\ rtPc = "encoded"
    /\ DOMAIN rtDoc.o = {"id", "tags"}
    /\ rtDoc.o["id"] = JNum(0)
    /\ rtDoc.o["tags"] = JArr(<<>>)
    /\ rtOut = rtDoc
(***************************************************************************)
(* REST operations.                                                        *)
(***************************************************************************)
\* The call went past request construction: neither collaborator failed.
Built == restCall.op # "none" /\ ~restCall.env.addErr /\ ~restCall.env.reqErr

\* The parameter names the List options are documented under.
ListParamNames ==
    [Event |-> "event", Limit |-> "limit", SinceID |-> "since_id",
     UntilID |-> "until_id", Tags |-> "tags", TagMode |-> "tag_mode",
     Search |-> "search"]

\* The parameters a bundle asks for: its non-zero fields, under their names.
NonZeroFields(opt) ==
    {f \in DOMAIN opt : opt[f] \notin {ZeroOption("int"), ZeroOption("string"),
                                       ZeroOption("strs")}}

\* C14: the query of a List request has a parameter for exactly the option
\* fields whose value is non-zero, with that value (tags joined by commas),
\* and none for a field at its zero value, set explicitly or not.
C14_ListQueryIsNonZeroFields ==
    (restCall.op = "List" /\ Built) =>
        /\ Len(httpLog) = 1
        /\ DOMAIN httpLog[1].query =
              {ListParamNames[f] : f \in NonZeroFields(restCall.opt)}
        /\ \A f \in NonZeroFields(restCall.opt) :
              httpLog[1].query[ListParamNames[f]] =
                 CASE f = "Limit" -> <<"3">>
                   [] f = "SinceID" -> <<"5">>
                   [] f = "UntilID" -> <<"1", "0">>
                   [] f = "Tags" -> <<"a", ",", "b">>
                   [] f = "TagMode" -> <<"and">>
                   [] OTHER -> <<"x">>

\* since_id=5, until_id=10, limit=3, tags=a,b, tag_mode=and; event and search
\* left at zero.
C14_Witness ==
    /\ restCall.op = "List"
    /\ Built
    /\ NonZeroFields(restCall.opt) =
          {"SinceID", "UntilID", "Limit", "Tags", "TagMode"}
    /\ DOMAIN httpLog[1].query =
          {"since_id", "until_id", "limit", "tags", "tag_mode"}
    /\ httpLog[1].query["until_id"] = <<"1", "0">>
    /\ httpLog[1].query["tags"] = <<"a", ",", "b">>
\* The parameter names the create options are documented under, and the text
\* of each option's non-zero value.
CreateParamNames ==
    [FlowID |-> "flow", MessageID |-> "message", Event |-> "event",
     Content |-> "content", Tags |-> "tags", UUID |-> "uuid",
     ExternalUserName |-> "external_user_name", Subject |-> "subject",
     FromAddress |-> "from_address", Source |-> "source"]

CreateParamTexts ==
    [FlowID |-> <<"x">>, MessageID |-> <<"4", "2">>, Event |-> <<"x">>,
     Content |-> <<"Howdy-Doo @Jackie #awesome">>, Tags |-> <<"a", ",", "b">>,
     UUID |-> <<"x">>, ExternalUserName |-> <<"x">>,
     Subject |-> <<"a subject">>, FromAddress |-> <<"x">>, Source |-> <<"x">>]

\* C15: a create operation whose request is built issues exactly one POST
\* whose values are exactly the bundle's non-zero fields with their values,
\* and a 2xx answer with body {} gives no error and a Message whose fields
\* are all absent.
C15_CreatePostsNonZeroFields ==
    (restCall.op \in {"Create", "CreateComment"} /\ Built) =>
        /\ Len(httpLog) = 1
        /\ httpLog[1].method = "POST"
        /\ httpLog[1].path =
              IF restCall.op = "Create" THEN <<"messages">> ELSE <<"comments">>
        /\ DOMAIN httpLog[1].query =
              {CreateParamNames[f] : f \in NonZeroFields(restCall.opt)}
        /\ \A f \in NonZeroFields(restCall.opt) :
              httpLog[1].query[CreateParamNames[f]] = CreateParamTexts[f]
        /\ (restCall.env.answer.status \in 200..299
               /\ restCall.env.answer.body = EmptyObj) =>
              /\ restRet.err = "nil"
              /\ restRet.result.t = "ptr"
              /\ \A k \in Keys : restRet.result.msg[k] = Nil

\* Create with content and subject only, answered 200 {}.
C15_Witness ==
    /\ restCall.op = "Create"
    /\ Built
    /\ NonZeroFields(restCall.opt) = {"Content", "Subject"}
    /\ restCall.env.answer = [status |-> 200, body |-> EmptyObj]
    /\ DOMAIN httpLog[1].query = {"content", "subject"}
    /\ httpLog[1].query["subject"] = <<"a subject">>
    /\ restRet.err = "nil"
    /\ restRet.result = [t |-> "ptr", msg |-> ZeroMessage]
\* C17: List, Edit, Create and CreateComment return a construction error and
\* make no HTTP call whenever merging the options into the URL fails or
\* building the request fails.
C17_ConstructionErrorStopsCall ==
    (/\ restCall.op \in {"List", "Edit", "Create", "CreateComment"}
     /\ (restCall.env.addErr \/ restCall.env.reqErr)) =>
        /\ httpLog = <<>>
        /\ restRet.err \in {"options", "request"}
\* A call of List, Get, Create or CreateComment that reached client.Do.
Fetched ==
    /\ restCall.op \in {"List", "Get", "Create", "CreateComment"}
    /\ httpLog # <<>>

\* The body of the answer decodes into what the operation asked for.
BodyDecodes ==
    LET body == restCall.env.answer.body IN
    IF restCall.op = "List"
    THEN ~UnmarshalList(body).err
    ELSE ~UnmarshalMessage(body).err

\* The HTTP call failed: no answer, a status outside 2xx, or a body that does
\* not decode.
HttpFailed ==
    \/ restCall.env.answer.status \notin 200..299
    \/ ~BodyDecodes

\* A failed call returns an error, a nil result, and the response client.Do
\* gave: none on a transport error, the server's otherwise.
FailureIsReported ==
    (Fetched /\ HttpFailed) =>
        /\ restRet.err \in {"transport", "api", "decode"}
        /\ restRet.result = Nil
        /\ restRet.resp = IF restCall.env.answer.status = 0 THEN NilResp
                          ELSE [status |-> restCall.env.answer.status]

\* C19 as stated: a failed call returns a non-nil error, a nil result and the
\* response; a successful call returns a nil error and a non-nil result.
C19_SuccessIsNonNil ==
    /\ FailureIsReported
    /\ (Fetched /\ ~HttpFailed) =>
          /\ restRet.err = "nil"
          /\ restRet.result # Nil

\* C19: a failed call returns a non-nil error, a nil result and the
\* response; a successful call returns a nil error and the decoded body: a
\* non-nil Message for Get, Create and CreateComment, and for List the
\* decoded sequence, which is nil exactly when the body is null.
C19_SuccessIsDecodedBody ==
    /\ FailureIsReported
    /\ (Fetched /\ ~HttpFailed) =>
          /\ restRet.err = "nil"
          /\ restRet.resp = [status |-> restCall.env.answer.status]
          /\ IF restCall.op = "List"
             THEN (restRet.result = Nil) <=> (restCall.env.answer.body = JNull)
             ELSE restRet.result # Nil

\* Get answered 200 with a body whose id is a string: a decode error, and
\* the partly filled Message is not returned.
C19_Witness ==
    /\ restCall.op = "Get"
    /\ restCall.env.answer = [status |-> 200, body |-> FrameMismatch]
    /\ Len(httpLog) = 1
    /\ restRet.err = "decode"
    /\ restRet.result = Nil
    /\ restRet.resp = [status |-> 200]
(***************************************************************************)
(* Several subscriptions.                                                  *)
(***************************************************************************)
Live == {i \in SubIds : subs[i].state = "live"}

\* Each successful call has a channel and a source no other call has, and
\* one goroutine; a failed call has none.
OwnChannelSourceTask ==
    /\ \A i \in Live : subs[i].tasks = 1
    /\ \A i \in SubIds \ Live : subs[i].tasks = 0
    /\ \A i, j \in Live :
          i # j => subs[i].ch # subs[j].ch /\ subs[i].es # subs[j].es

\* What has been received on a subscription's channel is the decode, in
\* order, of the first frames read from that subscription's own source.
DeliveriesFromOwnSource ==
    \A i \in Live :
        LET got == chans[subs[i].ch].received
            read == sources[subs[i].es].read
        IN  /\ Len(got) <= Len(read)
            /\ \A k \in 1..Len(got) : got[k] = UnmarshalMessage(read[k]).msg

\* The goroutine of subscription i returns, or its handle is closed.
Terminates(i) ==
    \/ subs[i].pc # "done" /\ subs'[i].pc = "done"
    \/ ~subs[i].cancelled /\ subs'[i].cancelled

\* A step in which one subscription terminates leaves every other
\* subscription's goroutine, channel and source as they were.
OthersUntouched ==
    \A i \in SubIds :
        Terminates(i) =>
            \A j \in Live \ {i} :
                /\ subs'[j] = subs[j]
                /\ chans'[subs[j].ch] = chans[subs[j].ch]
                /\ sources'[subs[j].es] = sources[subs[j].es]

\* C18: concurrent subscriptions are isolated: each successful Stream call
\* has its own channel, its own event source and exactly one goroutine;
\* every Message received on a subscription's channel is the decode of a
\* frame read from that subscription's source; and the termination of one
\* subscription changes nothing of another.
C18_SubscriptionsIsolated ==
    /\ [](OwnChannelSourceTask /\ DeliveriesFromOwnSource)
    /\ [][OthersUntouched]_vars

\* Two live subscriptions; the first has terminated after one delivery, on
\* a read error or a cancellation, and the second has delivered two
\* Messages of its own source.
C18_Witness ==
    /\ Live = {1, 2}
    /\ subs[1].pc = "done"
    /\ Len(chans[subs[1].ch].received) = 1
    /\ Len(chans[subs[2].ch].received) = 2
    /\ chans[subs[2].ch].received[2] =
          UnmarshalMessage(SourceFrame(subs[2].es, 2)).msg
    /\ subs[2].pc # "done"
====
